---- MODULE Spec2Model ----
(***************************************************************************)
(* A model of app.py, the Streamlit meme generator: the renderer           *)
(* draw_text_on_image, the caption fetch get_ai_caption (with its          *)
(* st.cache_data memo) and the top-level script that Streamlit reruns on   *)
(* every interaction.                                                      *)
(*                                                                         *)
(* Strings are sequences of one-character strings.  An image is a record   *)
(* [size, pixels]; pixels is the sequence of ImageDraw.text operations     *)
(* applied to the bitmap since it was decoded (<<>> = the decoded pixels). *)
(* Image objects live in a heap (a sequence, a reference is an index), so  *)
(* that drawing in place and image.copy() are told apart.  Horizontal      *)
(* coordinates are kept doubled (x2 = 2 * x) because the code computes     *)
(* x = (width - text_width) / 2 with true division.                        *)
(***************************************************************************)
EXTENDS Integers, Sequences, FiniteSets, TLC

VARIABLES
    env,            \* the deployment: font file present, Pillow's checks, font metrics
    user_file,      \* the image file the user works with in this session
    api_key,        \* st.text_input(... type="password")
    uploaded_file,  \* st.file_uploader: NoFile or a file
    session_state,  \* st.session_state: top_text, bottom_text
    cache,          \* st.cache_data memo of get_ai_caption
    heap,           \* image objects of the last script run
    image,          \* reference to `image` of the last run (0: none)
    meme_image,     \* reference to `meme_image` of the last run (0: none)
    shown,          \* st.info / st.warning / st.error / exception of the last run
    last_call,      \* the get_ai_caption call of the last run
    last_render,    \* the draw_text_on_image call of the last run
    r_args,         \* renderer harness: the arguments of one call
    r_heap,         \* renderer harness: the heap holding the argument image
    r_result,       \* renderer harness: the outcome of the call
    c_exchange      \* caption harness: the HTTP exchange of the last call

vars == <<env, user_file, api_key, uploaded_file, session_state, cache, heap, image,
          meme_image, shown, last_call, last_render, r_args, r_heap, r_result,
          c_exchange>>

uivars == <<api_key, uploaded_file, session_state, cache, heap, image,
            meme_image, shown, last_call, last_render>>

----------------------------------------------------------------------------
(* Bounds *)

\* longest caption typed by the user or passed to the renderer
MaxLen == 1
\* largest horizontal origin offset (bbox[0]) of a measured text
MaxBearing == 2
\* largest vertical origin offset (bbox[1]) of a measured text
MaxTopOffset == 1

(* Program constants *)

\* y = 10 and height - text_height - 10
Margin == 10
\* the outline passes at (x +/- 2, y +/- 2)
OutlineOffset == 2
\* font_size = int(width / 10)
FontDivisor == 10

----------------------------------------------------------------------------
(* Strings *)

Chars == {"a", " "}

Texts == UNION {[1..k -> Chars] : k \in 0..MaxLen}

EmptyStr == <<>>

\* Python truthiness of a str: `if top_text:`
Truthy(s) == Len(s) > 0

IsSpace(c) == c = " "

UpperChar(c) == IF c = "a" THEN "A" ELSE c

\* the mutant of Upper: the text is passed on in its original casing
UpperKeepCase(s) == s

\* str.upper()
Upper(s) == [i \in 1..Len(s) |-> UpperChar(s[i])]

WhitespaceOnly(s) == Len(s) > 0 /\ \A i \in 1..Len(s) : IsSpace(s[i])

RECURSIVE LStrip(_)
LStrip(s) == IF Len(s) > 0 /\ IsSpace(Head(s)) THEN LStrip(Tail(s)) ELSE s

RECURSIVE RStrip(_)
RStrip(s) ==
    IF Len(s) > 0 /\ IsSpace(s[Len(s)]) THEN RStrip(SubSeq(s, 1, Len(s) - 1)) ELSE s

\* str.strip()
Strip(s) == RStrip(LStrip(s))

----------------------------------------------------------------------------
(* The deployment *)

\* fontAvailable: impact.ttf can be opened.
\* strictSize: ImageFont.truetype rejects a size <= 0 with ValueError (Pillow
\*   since 10.1); otherwise FreeType clamps the size to 1.
\* bearing, topOffset: the origin offsets (bbox[0], bbox[1]) of the box that
\*   ImageDraw.textbbox((0, 0), ...) measures with the font in use.
Envs ==
    [fontAvailable : BOOLEAN, strictSize : BOOLEAN,
     bearing : 0..MaxBearing, topOffset : 0..MaxTopOffset]

\* image sizes (width, height): one narrower than 10 pixels, one not
Sizes == {<<5, 40>>, <<400, 400>>}

----------------------------------------------------------------------------
(* Fonts and text measurement *)

DefaultFont == [kind |-> "default", size |-> 0]

\* ImageFont.truetype("impact.ttf", font_size)
truetype(size, e) ==
    IF e.strictSize /\ size <= 0
    THEN [exc |-> "ValueError", font |-> DefaultFont]
    ELSE IF ~e.fontAvailable
    THEN [exc |-> "IOError", font |-> DefaultFont]
    ELSE [exc |-> "none",
          font |-> [kind |-> "truetype", size |-> IF size < 1 THEN 1 ELSE size]]

\* advance width of one glyph and the line height, in pixels
Advance(font) == IF font.kind = "default" THEN 6 ELSE font.size
LineHeight(font) == IF font.kind = "default" THEN 11 ELSE font.size

\* draw.textbbox((0, 0), text, font=font): (left, top, right, bottom)
textbbox(text, font, e) ==
    <<e.bearing, e.topOffset,
      e.bearing + Len(text) * Advance(font), e.topOffset + LineHeight(font)>>

\* try: font = ImageFont.truetype(...)  except IOError: warn, load_default()
SelectFont(width, e) ==
    LET font_size == width \div FontDivisor
        r == truetype(font_size, e)
    IN  IF r.exc = "IOError"
        THEN [raised |-> FALSE, font |-> DefaultFont, warned |-> TRUE]
        ELSE IF r.exc = "none"
        THEN [raised |-> FALSE, font |-> r.font, warned |-> FALSE]
        ELSE [raised |-> TRUE, font |-> DefaultFont, warned |-> FALSE]

----------------------------------------------------------------------------
(* Drawing *)

\* the mutant of ApplyText: the canvas grows to hold the drawn text
ApplyTextGrow(img, op) ==
    [size |-> <<IF op.ink[3] > 2 * img.size[1] THEN (op.ink[3] + 1) \div 2
                ELSE img.size[1],
                img.size[2]>>,
     pixels |-> Append(img.pixels, op)]

\* the effect of one draw.text on the bitmap: pixels change, the size does not
ApplyText(img, op) == [img EXCEPT !.pixels = Append(img.pixels, op)]

\* draw.text((x, y), text, font=font, fill=fill), issued for `slot`.
\* d = [image, calls]; ink is the box the glyphs occupy, textbbox((x, y), ...),
\* with its horizontal edges doubled.
draw_text(d, slot, x2, y, text, font, fill, e) ==
    LET b == textbbox(text, font, e)
        op == [op |-> "text", slot |-> slot, x2 |-> x2, y |-> y, text |-> text,
               fill |-> fill,
               ink |-> <<x2 + 2 * b[1], y + b[2], x2 + 2 * b[3], y + b[4]>>]
    IN  [image |-> ApplyText(d.image, op), calls |-> Append(d.calls, op)]

\* the measuring call, logged
measure(d, slot, text) ==
    [d EXCEPT !.calls = Append(d.calls,
        [op |-> "textbbox", slot |-> slot, x2 |-> 0, y |-> 0, text |-> text,
         fill |-> "none", ink |-> <<0, 0, 0, 0>>])]

draw_text_with_outline(d, slot, text, x2, y, font, e) ==
    LET o == OutlineOffset
        d1 == draw_text(d, slot, x2 - 2 * o, y - o, text, font, "black", e)
        d2 == draw_text(d1, slot, x2 + 2 * o, y - o, text, font, "black", e)
        d3 == draw_text(d2, slot, x2 - 2 * o, y + o, text, font, "black", e)
        d4 == draw_text(d3, slot, x2 + 2 * o, y + o, text, font, "black", e)
    IN  draw_text(d4, slot, x2, y, text, font, "white", e)

\* the mutant of SlotGuard: the slot is drawn whatever the text
SlotGuardAlways(text) == TRUE

\* `if top_text:` / `if bottom_text:`
SlotGuard(text) == Truthy(text)

TopText(d, top_text, font, e) ==
    IF SlotGuard(top_text)
    THEN LET text == Upper(top_text)
             bbox == textbbox(text, font, e)
             top_text_width == bbox[3] - bbox[1]
             x2 == d.image.size[1] - top_text_width
             y == Margin
         IN  draw_text_with_outline(measure(d, "top", text), "top", text, x2, y, font, e)
    ELSE d

BottomText(d, bottom_text, font, e) ==
    IF SlotGuard(bottom_text)
    THEN LET text == Upper(bottom_text)
             bbox == textbbox(text, font, e)
             bottom_text_width == bbox[3] - bbox[1]
             bottom_text_height == bbox[4] - bbox[2]
             x2 == d.image.size[1] - bottom_text_width
             y == d.image.size[2] - bottom_text_height - Margin
         IN  draw_text_with_outline(measure(d, "bottom", text), "bottom", text, x2, y,
                                    font, e)
    ELSE d

\* draw_text_on_image(image, top_text, bottom_text) on the object hp[ref].
\* Returns the heap after the call, the returned reference (0 when the call
\* raised), the ImageDraw calls issued and whether st.warning was shown.
draw_text_on_image(hp, ref, top_text, bottom_text, e) ==
    LET f == SelectFont(hp[ref].size[1], e)
    IN  IF f.raised
        THEN [raised |-> TRUE, heap |-> hp, ret |-> 0, calls |-> <<>>,
              warned |-> FALSE]
        ELSE LET d0 == [image |-> hp[ref], calls |-> <<>>]
                 d1 == TopText(d0, top_text, f.font, e)
                 d2 == BottomText(d1, bottom_text, f.font, e)
             IN  [raised |-> FALSE, heap |-> [hp EXCEPT ![ref] = d2.image],
                  ret |-> ref, calls |-> d2.calls, warned |-> f.warned]

NoRender ==
    [raised |-> FALSE, heap |-> <<>>, ret |-> 0, calls |-> <<>>, warned |-> FALSE]

\* Image.open(uploaded_file).convert("RGB"): a freshly decoded bitmap
NewImage(size) == [size |-> size, pixels |-> <<>>]

----------------------------------------------------------------------------
(* The renderer on its own: one call on arbitrary arguments *)

NotCalled == [state |-> "pending", r |-> NoRender]

IdleArgs == [size |-> <<400, 400>>, top_text |-> EmptyStr, bottom_text |-> EmptyStr]

CallRender ==
    /\ r_result.state = "pending"
    /\ r_result' = [state |-> "done",
                    r |-> draw_text_on_image(r_heap, 1, r_args.top_text,
                                             r_args.bottom_text, env)]
    /\ UNCHANGED <<env, user_file, r_args, r_heap, c_exchange>>
    /\ UNCHANGED uivars

----------------------------------------------------------------------------
(* The HTTP exchange of get_ai_caption *)

\* JSON values
JNum == [t |-> "num"]
JStr(s) == [t |-> "str", chars |-> s]
JArr(s) == [t |-> "arr", items |-> s]
JObj(f) == [t |-> "obj", fields |-> f]

\* the caption texts a well-formed response carries
ResponseTexts == {<<"a">>, <<" ", "a", " ">>, <<" ">>}

WellFormed(s) ==
    JObj([candidates |->
        JArr(<<JObj([content |-> JObj([parts |-> JArr(<<JObj([text |-> JStr(s)])>>)])])>>)])

JsonBodies ==
    {JNum,
     JArr(<<>>),
     JObj([error |-> JStr(<<"a">>)]),
     JObj([candidates |-> JArr(<<>>)]),
     JObj([candidates |-> JArr(<<JObj([finishReason |-> JStr(<<"a">>)])>>)]),
     JObj([candidates |-> JArr(<<JObj([content |-> JObj([parts |-> JArr(<<>>)])])>>)]),
     JObj([candidates |->
        JArr(<<JObj([content |-> JObj([parts |-> JArr(<<JObj([text |-> JNum])>>)])])>>)])}
    \cup {WellFormed(s) : s \in ResponseTexts}

NotJson == [t |-> "notjson"]

Bodies == {NotJson} \cup JsonBodies

Statuses == {200, 300, 404, 503}

\* what requests.post(api_url, json=payload, timeout=60) can do
Outcomes ==
    [kind : {"timeout", "connection"}, status : {0}, body : {NotJson}]
    \cup [kind : {"response"}, status : Statuses, body : Bodies]

\* response.raise_for_status(): HTTPError for 4xx and 5xx
raise_for_status(status) == 400 <= status /\ status < 600

\* evaluation of a subscript chain: [ok, v]; ok = FALSE is a raised
\* KeyError, IndexError or TypeError
Fail == [ok |-> FALSE, v |-> JNum]

\* v[key]
GetKey(r, key) ==
    IF r.ok /\ r.v.t = "obj" /\ key \in DOMAIN r.v.fields
    THEN [ok |-> TRUE, v |-> r.v.fields[key]]
    ELSE Fail

\* v[0]
GetFirst(r) ==
    IF r.ok /\ r.v.t = "arr" /\ Len(r.v.items) > 0
    THEN [ok |-> TRUE, v |-> r.v.items[1]]
    ELSE IF r.ok /\ r.v.t = "str" /\ Len(r.v.chars) > 0
    THEN [ok |-> TRUE, v |-> JStr(<<r.v.chars[1]>>)]
    ELSE Fail

\* result["candidates"][0]["content"]["parts"][0]["text"]
CaptionPath(result) ==
    GetKey(GetFirst(GetKey(GetKey(GetFirst(
        GetKey([ok |-> TRUE, v |-> result], "candidates")), "content"), "parts")), "text")

\* `"candidates" in result`: "yes", "no", or "TypeError" for a value that is
\* no container (no sample string holds the substring, no sample list the item)
InCandidates(result) ==
    IF result.t = "obj"
    THEN IF "candidates" \in DOMAIN result.fields THEN "yes" ELSE "no"
    ELSE IF result.t \in {"arr", "str"} THEN "no"
    ELSE "TypeError"

CaughtError == [ret |-> EmptyStr, error |-> "exception"]

\* the body of get_ai_caption, lines 114-125: the value returned and the
\* st.error shown ("none", "malformed", "exception")
Fetch(o) ==
    IF o.kind # "response" THEN CaughtError
    ELSE IF raise_for_status(o.status) THEN CaughtError
    ELSE IF o.body.t = "notjson" THEN CaughtError
    ELSE LET result == o.body
             has == InCandidates(result)
             text == CaptionPath(result)
         IN  IF has = "TypeError" THEN CaughtError
             ELSE IF has = "no" THEN [ret |-> EmptyStr, error |-> "malformed"]
             ELSE IF text.ok /\ text.v.t = "str"
             THEN [ret |-> Strip(text.v.chars), error |-> "none"]
             ELSE CaughtError

NoCall == [called |-> FALSE, ret |-> EmptyStr, error |-> "none"]

\* @st.cache_data get_ai_caption(image_bytes, api_key): a memo keyed by the
\* arguments; a hit returns the stored value and replays the stored st.error
get_ai_caption(c, image_bytes, key, o) ==
    IF <<image_bytes, key>> \in DOMAIN c
    THEN [call |-> [called |-> TRUE, ret |-> c[<<image_bytes, key>>].ret,
                    error |-> c[<<image_bytes, key>>].error],
          cache |-> c]
    ELSE LET r == Fetch(o)
         IN  [call |-> [called |-> TRUE, ret |-> r.ret, error |-> r.error],
              cache |-> c @@ (<<image_bytes, key>> :> r)]

EmptyCache == [x \in {} |-> CaughtError]

NoExchange == [kind |-> "none", status |-> 0, body |-> NotJson]

\* the exchanges a call can see: none at all when the memo answers it
Exchanges(c, image_bytes, key) ==
    IF <<image_bytes, key>> \in DOMAIN c THEN {NoExchange} ELSE Outcomes

----------------------------------------------------------------------------
(* get_ai_caption on its own: calls on arbitrary arguments and exchanges *)

CallCaption(image_bytes, key, o) ==
    \E g \in {get_ai_caption(cache, image_bytes, key, o)} :
        /\ cache' = g.cache
        /\ last_call' = g.call
        /\ shown' = IF g.call.error = "none" THEN {} ELSE {g.call.error}
        /\ c_exchange' = o
        /\ UNCHANGED <<env, user_file, api_key, uploaded_file, session_state, heap,
                       image, meme_image, last_render, r_args, r_heap, r_result>>

----------------------------------------------------------------------------
(* The script, lines 128-185, run from top to bottom on every interaction *)

NoFile == <<0, 0>>

ApiKeys == {"", "k"}

NoState == [top_text |-> EmptyStr, bottom_text |-> EmptyStr]

\* the mutant of AssignSuggestion: the caption lands in the other field
AssignSuggestionTop(ss, ai_caption) == [ss EXCEPT !.top_text = ai_caption]

\* st.session_state.bottom_text = ai_caption
AssignSuggestion(ss, ai_caption) == [ss EXCEPT !.bottom_text = ai_caption]

\* the mutant of ImageCopy: the renderer is handed `image` itself
ImageCopyAlias(hp, ref) == [heap |-> hp, ref |-> ref]

\* image.copy(): a new object with the same size and pixels
ImageCopy(hp, ref) == [heap |-> Append(hp, hp[ref]), ref |-> Len(hp) + 1]

NoRenderCall ==
    [called |-> FALSE, raised |-> FALSE, top_text |-> EmptyStr,
     bottom_text |-> EmptyStr, calls |-> <<>>]

\* One run of the script with the widget values key, file, ss; pressed is
\* st.button's value in this run, o the HTTP exchange a fetch would see.
\* Without a file the two text inputs are not rendered and Streamlit drops
\* their keys from the session state.
Script(key, file, ss, pressed, o, c, e) ==
    IF file = NoFile
    THEN [session_state |-> NoState, cache |-> c, heap |-> <<>>, image |-> 0,
          meme_image |-> 0, shown |-> {"info_upload"}, last_call |-> NoCall,
          last_render |-> NoRenderCall]
    ELSE LET hp0 == <<NewImage(file)>>
             suggest == key # "" /\ pressed
             g == IF suggest THEN get_ai_caption(c, file, key, o)
                  ELSE [call |-> NoCall, cache |-> c]
             ss1 == IF suggest THEN AssignSuggestion(ss, g.call.ret) ELSE ss
             msgs1 == (IF key = "" THEN {"info_key"} ELSE {})
                      \cup (IF g.call.error # "none" THEN {g.call.error} ELSE {})
             top_text == ss1.top_text
             bottom_text == ss1.bottom_text
         IN  IF Truthy(top_text) \/ Truthy(bottom_text)
             THEN LET cp == ImageCopy(hp0, 1)
                      r == draw_text_on_image(cp.heap, cp.ref, top_text, bottom_text, e)
                  IN  [session_state |-> ss1, cache |-> g.cache, heap |-> r.heap,
                       image |-> 1, meme_image |-> r.ret,
                       shown |-> msgs1
                                 \cup (IF r.warned THEN {"warning_font"} ELSE {})
                                 \cup (IF r.raised THEN {"uncaught"} ELSE {}),
                       last_call |-> g.call,
                       last_render |-> [called |-> TRUE, raised |-> r.raised,
                                        top_text |-> top_text,
                                        bottom_text |-> bottom_text,
                                        calls |-> r.calls]]
             ELSE [session_state |-> ss1, cache |-> g.cache, heap |-> hp0,
                   image |-> 1, meme_image |-> 0, shown |-> msgs1,
                   last_call |-> g.call, last_render |-> NoRenderCall]

Rerun(key, file, ss, pressed, o) ==
    \E s \in {Script(key, file, ss, pressed, o, cache, env)} :
        /\ api_key' = key
        /\ uploaded_file' = file
        /\ session_state' = s.session_state
        /\ cache' = s.cache
        /\ heap' = s.heap
        /\ image' = s.image
        /\ meme_image' = s.meme_image
        /\ shown' = s.shown
        /\ last_call' = s.last_call
        /\ last_render' = s.last_render
        /\ UNCHANGED <<env, user_file, r_args, r_heap, r_result, c_exchange>>

EnterApiKey(key) ==
    /\ key # api_key
    /\ Rerun(key, uploaded_file, session_state, FALSE, NoExchange)

UploadFile ==
    /\ uploaded_file = NoFile
    /\ Rerun(api_key, user_file, session_state, FALSE, NoExchange)

RemoveFile ==
    /\ uploaded_file # NoFile
    /\ Rerun(api_key, NoFile, session_state, FALSE, NoExchange)

TypeTopText(t) ==
    /\ uploaded_file # NoFile
    /\ t # session_state.top_text
    /\ Rerun(api_key, uploaded_file, [session_state EXCEPT !.top_text = t], FALSE,
             NoExchange)

TypeBottomText(t) ==
    /\ uploaded_file # NoFile
    /\ t # session_state.bottom_text
    /\ Rerun(api_key, uploaded_file, [session_state EXCEPT !.bottom_text = t], FALSE,
             NoExchange)

ClickSuggest(o) ==
    /\ uploaded_file # NoFile
    /\ api_key # ""
    /\ Rerun(api_key, uploaded_file, session_state, TRUE, o)

----------------------------------------------------------------------------
(* Specifications *)

IdleEnv ==
    [fontAvailable |-> TRUE, strictSize |-> TRUE, bearing |-> 0, topOffset |-> 0]

UiInit ==
    /\ api_key = ""
    /\ uploaded_file = NoFile
    /\ session_state = NoState
    /\ cache = EmptyCache
    /\ heap = <<>>
    /\ image = 0
    /\ meme_image = 0
    /\ shown = {"info_upload"}
    /\ last_call = NoCall
    /\ last_render = NoRenderCall

HarnessIdle ==
    /\ r_args = IdleArgs
    /\ r_heap = <<NewImage(IdleArgs.size)>>
    /\ r_result = NotCalled
    /\ c_exchange = NoExchange

\* the application: a deployment, then the user's interactions
Init ==
    /\ env \in Envs
    /\ user_file \in Sizes
    /\ UiInit
    /\ HarnessIdle

Next ==
    \/ \E key \in ApiKeys : EnterApiKey(key)
    \/ UploadFile
    \/ RemoveFile
    \/ \E t \in Texts : TypeTopText(t)
    \/ \E t \in Texts : TypeBottomText(t)
    \/ \E o \in Exchanges(cache, uploaded_file, api_key) : ClickSuggest(o)

Spec == Init /\ [][Next]_vars

\* the renderer called once on arbitrary arguments
InitRender ==
    /\ env \in Envs
    /\ user_file = IdleArgs.size
    /\ UiInit
    /\ r_args \in [size : Sizes, top_text : Texts, bottom_text : Texts]
    /\ r_heap = <<NewImage(r_args.size)>>
    /\ r_result = NotCalled
    /\ c_exchange = NoExchange

NextRender == CallRender

SpecRender == InitRender /\ [][NextRender]_vars

\* get_ai_caption called on arbitrary arguments
InitCaption ==
    /\ env = IdleEnv
    /\ user_file = IdleArgs.size
    /\ UiInit
    /\ HarnessIdle

NextCaption ==
    \E image_bytes \in Sizes, key \in ApiKeys \ {""} :
        \E o \in Exchanges(cache, image_bytes, key) : CallCaption(image_bytes, key, o)

SpecCaption == InitCaption /\ [][NextCaption]_vars

----------------------------------------------------------------------------
(* Properties of the renderer, under SpecRender *)

Done == r_result.state = "done"

Returned == Done /\ ~r_result.r.raised /\ r_result.r.ret # 0

\* the positions in the call log of the draw.text calls issued for a slot
TextCalls(slot) ==
    {i \in 1..Len(r_result.r.calls) :
        r_result.r.calls[i].op = "text" /\ r_result.r.calls[i].slot = slot}

\* the fill passes: the caption as finally drawn
FillCalls(slot) == {i \in TextCalls(slot) : r_result.r.calls[i].fill = "white"}

SlotCalls(slot) ==
    {i \in 1..Len(r_result.r.calls) : r_result.r.calls[i].slot = slot}

Blank(s) == s = EmptyStr \/ WhitespaceOnly(s)

\* u is s with every lower-case letter replaced by its capital
UpperFormOf(s, u) ==
    /\ Len(u) = Len(s)
    /\ \A j \in 1..Len(s) : u[j] = (IF s[j] = "a" THEN "A" ELSE s[j])

\* C1: when top_text is empty or whitespace-only no draw.text is issued for
\* the top slot, and likewise for bottom_text and the bottom slot.
C1_BlankSlotNotDrawn ==
    Done =>
        /\ Blank(r_args.top_text) => TextCalls("top") = {}
        /\ Blank(r_args.bottom_text) => TextCalls("bottom") = {}

\* C3: the top caption as drawn has its top edge at exactly 10, the bottom
\* caption as drawn has its bottom edge at exactly height - 10.
C3_VerticalMargins ==
    Returned =>
        /\ \A i \in FillCalls("top") : r_result.r.calls[i].ink[2] = Margin
        /\ \A i \in FillCalls("bottom") :
               r_result.r.calls[i].ink[4] = r_args.size[2] - Margin

\* C4: a caption narrower than the image is drawn with the midpoint of its
\* box within one pixel of width / 2 (edges are doubled: left + right is
\* four times the midpoint).
C4_Centered ==
    Returned =>
        \A i \in FillCalls("top") \cup FillCalls("bottom") :
            LET ink == r_result.r.calls[i].ink
                dev == ink[1] + ink[3] - 2 * r_args.size[1]
            IN  ink[3] - ink[1] < 2 * r_args.size[1] => (-4 <= dev /\ dev <= 4)

\* C6: every call completes and returns an image, whatever the width and
\* whether or not the Impact font can be loaded.
C6_FontNeverFails ==
    Done => ~r_result.r.raised /\ r_result.r.ret # 0

\* C7: with both captions empty no drawing operation is performed and the
\* returned bitmap is the input bitmap, pixel for pixel.
C7_EmptyCaptionsIdentity ==
    (Returned /\ r_args.top_text = EmptyStr /\ r_args.bottom_text = EmptyStr) =>
        /\ r_result.r.calls = <<>>
        /\ r_result.r.heap[r_result.r.ret] = r_heap[1]
        /\ r_heap[1] = NewImage(r_args.size)

C7_Witness ==
    Returned /\ r_args.top_text = EmptyStr /\ r_args.bottom_text = EmptyStr

\* C8: the returned bitmap has the width and height of the input, also when
\* a caption is wider than the image.
C8_SameDimensions ==
    Returned => r_result.r.heap[r_result.r.ret].size = r_args.size

C8_Witness ==
    /\ Returned
    /\ \E i \in FillCalls("top") :
           r_result.r.calls[i].ink[3] - r_result.r.calls[i].ink[1] > 2 * r_args.size[1]
    /\ r_result.r.heap[r_result.r.ret].size = r_args.size

\* C9: every measuring and drawing call of a slot receives the upper-cased
\* form of that slot's input, and a non-empty slot issues all six of them.
C9_UpperCased ==
    Done =>
        /\ \A i \in SlotCalls("top") :
               UpperFormOf(r_args.top_text, r_result.r.calls[i].text)
        /\ \A i \in SlotCalls("bottom") :
               UpperFormOf(r_args.bottom_text, r_result.r.calls[i].text)
        /\ (Returned /\ Truthy(r_args.top_text)) =>
               Cardinality(SlotCalls("top")) = 6 /\ Cardinality(TextCalls("top")) = 5
        /\ (Returned /\ Truthy(r_args.bottom_text)) =>
               Cardinality(SlotCalls("bottom")) = 6
               /\ Cardinality(TextCalls("bottom")) = 5

C9_Witness ==
    /\ Returned
    /\ r_args.top_text = <<"a">>
    /\ r_args.bottom_text = <<"a">>
    /\ \A i \in SlotCalls("top") \cup SlotCalls("bottom") :
           r_result.r.calls[i].text = <<"A">>
    /\ Len(r_result.r.calls) = 12

----------------------------------------------------------------------------
(* Properties of get_ai_caption, under SpecCaption *)

Fetched == last_call.called /\ c_exchange.kind # "none"

Is2xx(status) == 200 <= status /\ status < 300

WellFormed2xx ==
    /\ c_exchange.kind = "response"
    /\ Is2xx(c_exchange.status)
    /\ \E s \in ResponseTexts : c_exchange.body = WellFormed(s)

\* C5: every exchange other than a well-formed 2xx response shows an error
\* and returns the empty string; a well-formed 2xx response shows no error
\* and returns the stripped caption.
C5_ErrorUnlessWellFormed2xx ==
    Fetched =>
        IF WellFormed2xx
        THEN /\ last_call.error = "none"
             /\ \E s \in ResponseTexts :
                    c_exchange.body = WellFormed(s) /\ last_call.ret = Strip(s)
        ELSE last_call.error # "none" /\ last_call.ret = EmptyStr

----------------------------------------------------------------------------
(* Properties of the application, under Spec *)

\* C2: the uploaded image is never altered: after every run `image` holds the
\* decoded pixels of the upload, and a rendered meme is another object.
C2_OriginalUntouched ==
    image # 0 =>
        /\ heap[image] = NewImage(uploaded_file)
        /\ meme_image # 0 => meme_image # image

C2_Witness ==
    /\ image # 0
    /\ meme_image # 0
    /\ heap[meme_image].pixels # <<>>
    /\ heap[image].pixels = <<>>

\* C10: in a run that fetches a suggestion the bottom-text state becomes the
\* string get_ai_caption returned, the top-text state is unchanged, the
\* render of that run gets these two values, and a failed fetch leaves the
\* bottom text empty.
C10_SuggestionFillsBottom ==
    [][last_call'.called =>
        /\ session_state'.bottom_text = last_call'.ret
        /\ session_state'.top_text = session_state.top_text
        /\ last_render'.called =>
               /\ last_render'.bottom_text = last_call'.ret
               /\ last_render'.top_text = session_state.top_text
        /\ last_call'.error # "none" => session_state'.bottom_text = EmptyStr
        /\ last_render'.called
               <=> (Truthy(session_state.top_text) \/ Truthy(last_call'.ret))]_vars

C10_Witness ==
    /\ last_call.called
    /\ last_call.ret # EmptyStr
    /\ last_render.called
    /\ last_render.bottom_text = last_call.ret
    /\ session_state.bottom_text = last_call.ret

====
